---- MODULE Spec2Model ----
(***************************************************************************)
(* A model of the Orca public API client (src/src/client/client.rs and     *)
(* src/src/models/models.rs).                                              *)
(*                                                                         *)
(* Text is a sequence of symbols.  A symbol is one character ("?", "&",    *)
(* "2", ...) or a run of characters of fixed text that holds no delimiter  *)
(* ("solana", "pools", "sort", "By").  format! is concatenation; Url::parse*)
(* and the form-urlencoded serializer work symbol by symbol.               *)
(***************************************************************************)
EXTENDS Integers, Sequences, FiniteSets, TLC

(***************************************************************************)
(* Bounds of the model.                                                    *)
(***************************************************************************)
\* At most this many optional filters are present in one call.
MaxFilters == 2
\* Array-valued filters hold at most this many elements.
MaxLen == 3
\* The arrays of a response hold at most this many elements.
MaxItems == 2
\* At most this many calls are in progress at once on a client.
MaxCalls == 2

(***************************************************************************)
(* Generic helpers on sequences.                                           *)
(***************************************************************************)
Range(s) == { s[i] : i \in 1..Len(s) }

RECURSIVE IndexFrom(_, _, _)
\* The position of the first occurrence of c in s at or after i, or 0.
IndexFrom(s, c, i) ==
    IF i > Len(s) THEN 0
    ELSE IF s[i] = c THEN i ELSE IndexFrom(s, c, i + 1)

\* The position of the first occurrence of c in s, or 0.
IndexOf(s, c) == IndexFrom(s, c, 1)

\* Option<T>: None is the empty sequence, Some(v) the one-element sequence.
None == <<>>
Some(v) == <<v>>
IsSome(o) == Len(o) = 1
Unwrap(o) == o[1]

\* The sequences of length at most n that alternate a, b, a, ... or
\* b, a, b, ...
Alternating(a, b, n) ==
    { [i \in 1..k |-> IF i % 2 = 1 THEN a ELSE b] : k \in 0..n }
        \cup { [i \in 1..k |-> IF i % 2 = 1 THEN b ELSE a] : k \in 0..n }

(***************************************************************************)
(* Value-to-text conversions used by the Request Builder.                  *)
(***************************************************************************)
Digits == <<"0", "1", "2", "3", "4", "5", "6", "7", "8", "9">>

RECURSIVE IntToString(_)
\* u32::to_string / u64::to_string: the decimal digits, most significant first.
IntToString(n) ==
    IF n < 10 THEN <<Digits[n + 1]>>
    ELSE IntToString(n \div 10) \o <<Digits[(n % 10) + 1]>>

\* bool::to_string.
BoolToString(b) == IF b THEN <<"true">> ELSE <<"false">>

\* f64::to_string.  An f64 input is a non-negative multiple of 0.1, held as
\* its number of tenths: 5 is 0.5 ("0.5"), 1230 is 123.0 ("123").
F64ToString(t) ==
    IntToString(t \div 10)
        \o (IF t % 10 = 0 THEN <<>> ELSE <<".", Digits[(t % 10) + 1]>>)

(***************************************************************************)
(* TimePeriod (models.rs): nine variants, each renamed to its wire literal.*)
(***************************************************************************)
TimePeriod == {"M5", "M15", "M30", "H1", "H2", "H4", "H8", "H12", "H24"}

\* The #[serde(rename = "...")] literal of a variant.
TimePeriodRename(v) ==
    CASE v = "M5"  -> <<"5", "m">>
      [] v = "M15" -> <<"1", "5", "m">>
      [] v = "M30" -> <<"3", "0", "m">>
      [] v = "H1"  -> <<"1", "h">>
      [] v = "H2"  -> <<"2", "h">>
      [] v = "H4"  -> <<"4", "h">>
      [] v = "H8"  -> <<"8", "h">>
      [] v = "H12" -> <<"1", "2", "h">>
      [] v = "H24" -> <<"2", "4", "h">>

\* serde_json::to_string(&TimePeriod): a unit variant serializes as the JSON
\* string of its renamed literal, quotes included.
SerdeJsonToString(v) == <<"\"">> \o TimePeriodRename(v) \o <<"\"">>

\* str::replace('"', "").
ReplaceQuotes(s) == SelectSeq(s, LAMBDA c : c # "\"")

\* A variant of StatsValue that keeps the JSON quotes.
StatsValue_Quoted(v) == SerdeJsonToString(v)

\* The value emitted for one element of a stats filter.
StatsValue(v) == ReplaceQuotes(SerdeJsonToString(v))

\* Deserialize for TimePeriod (a HashMap<TimePeriod, _> key): the variant
\* whose literal is s, or None (serde's "unknown variant" error).
TimePeriodDeserialize(s) ==
    IF \E v \in TimePeriod : TimePeriodRename(v) = s
    THEN Some(CHOOSE v \in TimePeriod : TimePeriodRename(v) = s)
    ELSE None

(***************************************************************************)
(* application/x-www-form-urlencoded, as url::form_urlencoded writes it.   *)
(***************************************************************************)
\* byte_serialize: a space becomes "+", any other symbol that is not
\* alphanumeric or one of * - . _ its percent-encoding.
ByteSerialize(c) ==
    CASE c = " "  -> "+"
      [] c = "&"  -> "%26"
      [] c = "="  -> "%3D"
      [] c = "?"  -> "%3F"
      [] c = "#"  -> "%23"
      [] c = "/"  -> "%2F"
      [] c = ","  -> "%2C"
      [] c = "\"" -> "%22"
      [] c = "%"  -> "%25"
      [] c = "+"  -> "%2B"
      [] OTHER    -> c

FormEncode(s) == [i \in 1..Len(s) |-> ByteSerialize(s[i])]

(***************************************************************************)
(* reqwest::Url.                                                           *)
(***************************************************************************)
Schemes == {"http:", "https:"}
UrlDelims == {"/", "?", "#", "//"}

ParseError ==
    [ok |-> FALSE, scheme |-> "", host |-> "", path |-> <<>>,
     has_query |-> FALSE, query |-> <<>>]

\* Url::parse of an absolute http(s) URL: scheme, "//", host, then the path
\* up to the first "?", the query up to the first "#"; the fragment is not
\* part of a request.  Text with no scheme (RelativeUrlWithoutBase) or no
\* host (EmptyHost) is an error.
UrlParse(s) ==
    IF Len(s) < 3 \/ s[1] \notin Schemes \/ s[2] # "//" \/ s[3] \in UrlDelims
    THEN ParseError
    ELSE LET rest   == SubSeq(s, 4, Len(s))
             h      == IndexOf(rest, "#")
             noFrag == IF h = 0 THEN rest ELSE SubSeq(rest, 1, h - 1)
             q      == IndexOf(noFrag, "?")
             path   == IF q = 0 THEN noFrag ELSE SubSeq(noFrag, 1, q - 1)
         IN  [ok        |-> TRUE,
              scheme    |-> s[1],
              host      |-> s[3],
              path      |-> IF path = <<>> THEN <<"/">> ELSE path,
              has_query |-> q # 0,
              query     |-> IF q = 0 THEN <<>>
                            ELSE SubSeq(noFrag, q + 1, Len(noFrag))]

\* Url::query_pairs_mut: a URL with no query gets an empty one ("?").
QueryPairsMut(url) == [url EXCEPT !.has_query = TRUE]

\* Serializer::append_pair on the URL's query: "&" unless the query is
\* still empty, then the encoded key, "=", and the encoded value.
AppendPair(url, key, value) ==
    [QueryPairsMut(url) EXCEPT
        !.query = (IF @ = <<>> THEN <<>> ELSE @ \o <<"&">>)
                      \o FormEncode(key) \o <<"=">> \o FormEncode(value)]

\* The request target of a GET for url: the path, then "?" and the query
\* when the URL has one.
RequestTarget(url) ==
    url.path \o (IF url.has_query THEN <<"?">> \o url.query ELSE <<>>)

(***************************************************************************)
(* The Request Builder.  A filter table lists, in the order of the source's*)
(* `if let Some(..)` blocks, each optional parameter: its field name, the  *)
(* wire key literal it is appended under, and its type.                    *)
(***************************************************************************)
ArrayKinds == {"u64s", "strs", "periods"}

\* A variant of GetTokensFilters that appends the two sort parameters under
\* camelCase keys, as get_pools does.
GetTokensFilters_CamelCase == <<
    [field |-> <<"next">>,                   key |-> <<"next">>,              kind |-> "str"],
    [field |-> <<"previous">>,               key |-> <<"previous">>,          kind |-> "str"],
    [field |-> <<"size">>,                   key |-> <<"size">>,              kind |-> "u32"],
    [field |-> <<"sort", "_", "by">>,        key |-> <<"sort", "By">>,        kind |-> "str"],
    [field |-> <<"sort", "_", "direction">>, key |-> <<"sort", "Direction">>, kind |-> "str"],
    [field |-> <<"tokens">>,                 key |-> <<"tokens">>,            kind |-> "str"] >>

\* The parameters of get_tokens (client.rs, 114-119) and its appends (123-142).
GetTokensFilters == <<
    [field |-> <<"next">>,                   key |-> <<"next">>,                   kind |-> "str"],
    [field |-> <<"previous">>,               key |-> <<"previous">>,               kind |-> "str"],
    [field |-> <<"size">>,                   key |-> <<"size">>,                   kind |-> "u32"],
    [field |-> <<"sort", "_", "by">>,        key |-> <<"sort", "_", "by">>,        kind |-> "str"],
    [field |-> <<"sort", "_", "direction">>, key |-> <<"sort", "_", "direction">>, kind |-> "str"],
    [field |-> <<"tokens">>,                 key |-> <<"tokens">>,                 kind |-> "str"] >>

\* GetPoolsParams (client.rs, 18-36) and the appends of get_pools (196-262).
GetPoolsFilters == <<
    [field |-> <<"sort", "_", "by">>,        key |-> <<"sort", "By">>,             kind |-> "str"],
    [field |-> <<"sort", "_", "direction">>, key |-> <<"sort", "Direction">>,      kind |-> "str"],
    [field |-> <<"next">>,                   key |-> <<"next">>,                   kind |-> "str"],
    [field |-> <<"previous">>,               key |-> <<"previous">>,               kind |-> "str"],
    [field |-> <<"has", "_", "rewards">>,    key |-> <<"has", "Rewards">>,         kind |-> "bool"],
    [field |-> <<"has", "_", "warning">>,    key |-> <<"has", "Warning">>,         kind |-> "bool"],
    [field |-> <<"has", "_", "adaptive", "_", "fee">>,
                                             key |-> <<"has", "Adaptive", "Fee">>, kind |-> "bool"],
    [field |-> <<"is", "_", "wavebreak">>,   key |-> <<"is", "Wavebreak">>,        kind |-> "bool"],
    [field |-> <<"min", "_", "tvl">>,        key |-> <<"min", "Tvl">>,             kind |-> "f64"],
    [field |-> <<"min", "_", "volume">>,     key |-> <<"min", "Volume">>,          kind |-> "f64"],
    [field |-> <<"min", "_", "locked", "_", "liquidity", "_", "percent">>,
                                             key |-> <<"min", "Locked", "Liquidity", "Percent">>,
                                                                                   kind |-> "f64"],
    [field |-> <<"size">>,                   key |-> <<"size">>,                   kind |-> "u32"],
    [field |-> <<"token">>,                  key |-> <<"token">>,                  kind |-> "u64s"],
    [field |-> <<"tokens", "_", "both", "_", "of">>,
                                             key |-> <<"tokens", "Both", "Of">>,   kind |-> "strs"],
    [field |-> <<"addresses">>,              key |-> <<"addresses">>,              kind |-> "strs"],
    [field |-> <<"stats">>,                  key |-> <<"stats">>,                  kind |-> "periods"],
    [field |-> <<"include", "_", "blocked">>, key |-> <<"include", "Blocked">>,    kind |-> "bool"] >>

\* The optional fields of SearchPoolsParams (client.rs, 42-52) and the
\* appends of search_pools that follow q (282-323).
SearchPoolsFilters == <<
    [field |-> <<"next">>,                   key |-> <<"next">>,                   kind |-> "str"],
    [field |-> <<"size">>,                   key |-> <<"size">>,                   kind |-> "u32"],
    [field |-> <<"sort", "_", "by">>,        key |-> <<"sort", "By">>,             kind |-> "str"],
    [field |-> <<"sort", "_", "direction">>, key |-> <<"sort", "Direction">>,      kind |-> "str"],
    [field |-> <<"min", "_", "tvl">>,        key |-> <<"min", "Tvl">>,             kind |-> "f64"],
    [field |-> <<"min", "_", "volume">>,     key |-> <<"min", "Volume">>,          kind |-> "f64"],
    [field |-> <<"stats">>,                  key |-> <<"stats">>,                  kind |-> "periods"],
    [field |-> <<"user", "_", "tokens">>,    key |-> <<"user", "Tokens">>,         kind |-> "strs"],
    [field |-> <<"has", "_", "rewards">>,    key |-> <<"has", "Rewards">>,         kind |-> "bool"],
    [field |-> <<"verified", "_", "only">>,  key |-> <<"verified", "Only">>,       kind |-> "bool"],
    [field |-> <<"has", "_", "locked", "_", "liquidity">>,
                                             key |-> <<"has", "Locked", "Liquidity">>,
                                                                                   kind |-> "bool"] >>

\* The text a scalar filter value is appended as.
ScalarText(kind, v) ==
    CASE kind = "str"  -> v
      [] kind = "bool" -> BoolToString(v)
      [] kind = "u32"  -> IntToString(v)
      [] kind = "f64"  -> F64ToString(v)

\* The text one element of an array filter is appended as.
ElemText(kind, x) ==
    CASE kind = "u64s"    -> IntToString(x)
      [] kind = "strs"    -> x
      [] kind = "periods" -> StatsValue(x)

RECURSIVE JoinComma(_, _)
JoinComma(kind, xs) ==
    IF Len(xs) = 1 THEN ElemText(kind, xs[1])
    ELSE ElemText(kind, Head(xs)) \o <<",">> \o JoinComma(kind, Tail(xs))

\* A variant of AppendEach that appends one pair holding the comma-joined
\* elements.
AppendEach_Joined(url, key, kind, xs) ==
    IF xs = <<>> THEN url ELSE AppendPair(url, key, JoinComma(kind, xs))

RECURSIVE AppendEach(_, _, _, _)
\* `for x in xs { query_pairs.append_pair(key, text(x)) }`
AppendEach(url, key, kind, xs) ==
    IF xs = <<>> THEN url
    ELSE AppendEach(AppendPair(url, key, ElemText(kind, Head(xs))),
                    key, kind, Tail(xs))

\* A variant of AppendFilter that appends an empty marker for a filter
\* that is None.
AppendFilter_EmptyMarker(url, e, o) ==
    IF ~IsSome(o) THEN AppendPair(url, e.key, <<>>)
    ELSE IF e.kind \in ArrayKinds
         THEN AppendEach(url, e.key, e.kind, Unwrap(o))
         ELSE AppendPair(url, e.key, ScalarText(e.kind, Unwrap(o)))

\* One `if let Some(v) = field { ... }` block.
AppendFilter(url, e, o) ==
    IF ~IsSome(o) THEN url
    ELSE IF e.kind \in ArrayKinds
         THEN AppendEach(url, e.key, e.kind, Unwrap(o))
         ELSE AppendPair(url, e.key, ScalarText(e.kind, Unwrap(o)))

RECURSIVE AppendFilters_Reversed(_, _, _)
\* A variant of AppendFilters that runs the blocks last to first.
AppendFilters_Reversed(url, table, params) ==
    IF table = <<>> THEN url
    ELSE AppendFilter(AppendFilters_Reversed(url, Tail(table), params),
                      Head(table), params[Head(table).field])

RECURSIVE AppendFilters(_, _, _)
\* The blocks of a filter table, in order.
AppendFilters(url, table, params) ==
    IF table = <<>> THEN url
    ELSE AppendFilters(AppendFilter(url, Head(table), params[Head(table).field]),
                       Tail(table), params)

\* format!("{}/{}/<path>", base_url, chain)
Format(base_url, chain, path) == base_url \o <<"/">> \o chain \o <<"/">> \o path
\* format!("{}/{}/<path>/{}", base_url, chain, id)
FormatId(base_url, chain, path, id) == Format(base_url, chain, path) \o <<"/">> \o id

\* get_tokens: Url::parse, then one query_pairs_mut().append_pair per
\* present filter.
GetTokensUrl(base_url, chain, params) ==
    LET url == UrlParse(Format(base_url, chain, <<"tokens">>))
    IN  IF ~url.ok THEN ParseError
        ELSE AppendFilters(url, GetTokensFilters, params)

\* search_tokens: Url::parse, then q.
SearchTokensUrl(base_url, chain, query) ==
    LET url == UrlParse(Format(base_url, chain, <<"tokens", "/", "search">>))
    IN  IF ~url.ok THEN ParseError
        ELSE AppendPair(url, <<"q">>, query)

\* get_pools: Url::parse, query_pairs_mut() once, then the filters.
GetPoolsUrl(base_url, chain, params) ==
    LET url == UrlParse(Format(base_url, chain, <<"pools">>))
    IN  IF ~url.ok THEN ParseError
        ELSE AppendFilters(QueryPairsMut(url), GetPoolsFilters, params)

\* A variant of SearchPoolsUrl that appends q after the filters.
SearchPoolsUrl_QLast(base_url, chain, q, params) ==
    LET url == UrlParse(Format(base_url, chain, <<"pools", "/", "search">>))
    IN  IF ~url.ok THEN ParseError
        ELSE AppendPair(AppendFilters(QueryPairsMut(url), SearchPoolsFilters, params),
                        <<"q">>, q)

\* search_pools: Url::parse, query_pairs_mut() once, q, then the filters.
SearchPoolsUrl(base_url, chain, q, params) ==
    LET url == UrlParse(Format(base_url, chain, <<"pools", "/", "search">>))
    IN  IF ~url.ok THEN ParseError
        ELSE AppendFilters(AppendPair(QueryPairsMut(url), <<"q">>, q),
                           SearchPoolsFilters, params)

\* The path-only endpoints hand format!'s text to Client::get, which
\* parses it (IntoUrl); a parse error is kept in the request builder and
\* returned by send().
ProtocolInfoUrl(base_url, chain) ==
    UrlParse(Format(base_url, chain, <<"protocol">>))
TokenInfoUrl(base_url, chain) ==
    UrlParse(Format(base_url, chain, <<"protocol", "/", "token">>))
CirculatingSupplyUrl(base_url, chain) ==
    UrlParse(Format(base_url, chain,
                    <<"protocol", "/", "token", "/", "circulating_supply">>))
TotalSupplyUrl(base_url, chain) ==
    UrlParse(Format(base_url, chain,
                    <<"protocol", "/", "token", "/", "total_supply">>))
GetTokenUrl(base_url, chain, mint_address) ==
    UrlParse(FormatId(base_url, chain, <<"tokens">>, mint_address))
GetLockInfoUrl(base_url, chain, address) ==
    UrlParse(FormatId(base_url, chain, <<"lock">>, address))
GetPoolUrl(base_url, chain, address) ==
    UrlParse(FormatId(base_url, chain, <<"pools">>, address))

(***************************************************************************)
(* Inputs.                                                                 *)
(***************************************************************************)
\* const BASE_URL
BASE_URL == <<"https:", "//", "api.orca.so", "/", "v2">>

\* Arguments of with_base_url: a test server, and two texts that are not
\* absolute URLs (no scheme; empty).
BaseUrls == { <<"http:", "//", "127.0.0.1:1234">>, <<"api.orca.so">>, <<>> }

Chains == { <<"solana">>, <<"eclipse">> }

\* Mint and pool addresses: well-formed, empty, and malformed ones that
\* hold a URL delimiter.
Identifiers == { <<"X">>, <<>>, <<"X", "?", "y">>, <<"X", "#", "y">> }

\* Text arguments: the search text q and query of the search methods, and
\* the text filters (cursors, sort keys).
SearchTexts == { <<>>, <<"sol">>, <<"a", "&", "b", "=", "c">> }
StrValues == { <<"sol">>, <<"a", "&", "b", "=", "c">> }
U32Values == { 0, 120 }
\* f64 arguments, in tenths: 0.5 and 123.0.
F64Values == { 5, 1230 }

\* The values a filter of the given type is drawn from.
Domain(kind) ==
    CASE kind = "str"     -> StrValues
      [] kind = "bool"    -> BOOLEAN
      [] kind = "u32"     -> U32Values
      [] kind = "f64"     -> F64Values
      [] kind = "u64s"    -> Alternating(1, 42, MaxLen)
      [] kind = "strs"    -> Alternating(<<"X">>, <<"Y", ",", "Z">>, MaxLen)
      [] kind = "periods" -> Alternating("M5", "H24", MaxLen)
                                 \cup { <<v>> : v \in TimePeriod }

RECURSIVE SubsetsUpTo(_, _)
\* The subsets of S with at most k elements.
SubsetsUpTo(S, k) ==
    IF k = 0 \/ S = {} THEN { {} }
    ELSE LET x == CHOOSE y \in S : TRUE
         IN  SubsetsUpTo(S \ {x}, k)
                 \cup { T \cup {x} : T \in SubsetsUpTo(S \ {x}, k - 1) }

Fields(table) == { table[i].field : i \in 1..Len(table) }

\* Params::default(): every optional filter None.
Default(table) == [f \in Fields(table) |-> None]

RECURSIVE ParamsOn(_, _)
\* The parameter sets whose present filters are the table rows I.
ParamsOn(table, I) ==
    IF I = {} THEN { Default(table) }
    ELSE LET i == CHOOSE j \in I : TRUE
         IN  { [p EXCEPT ![table[i].field] = Some(v)] :
                   p \in ParamsOn(table, I \ {i}),
                   v \in Domain(table[i].kind) }

\* The sets of at most k rows of a filter table.
Presence(table, k) == SubsetsUpTo(1..Len(table), k)

(***************************************************************************)
(* JSON documents (what serde_json reads from a response body).  A value   *)
(* is the pair of its kind and its content; the members of an object are   *)
(* kept in document order, so a key may occur twice.                       *)
(***************************************************************************)
Kind(j) == j[1]
Content(j) == j[2]

JNull == <<"null", <<>>>>
JBool(b) == <<"bool", b>>
\* A number written without fraction or exponent.
JNum(n) == <<"num", n>>
\* A number written with a fraction, held as its number of tenths.
JFloat(tenths) == <<"float", tenths>>
\* A string, held as the symbols between its quotes (escapes included).
JStr(s) == <<"str", s>>
JArr(xs) == <<"arr", xs>>
JObj(ms) == <<"obj", ms>>
Member(key, value) == [k |-> key, v |-> value]

\* The text a JSON string denotes: each escape sequence is one symbol of
\* the document and stands for one character.
UnescapeChar(c) ==
    CASE c = "\\\"" -> "\""
      [] c = "\\\\" -> "\\"
      [] c = "\\n"  -> "\n"
      [] OTHER      -> c

\* A variant of Unescape that keeps the escape sequences as written.
Unescape_Raw(s) == s

Unescape(s) == [i \in 1..Len(s) |-> UnescapeChar(s[i])]

(***************************************************************************)
(* The Rust types of the response records (models.rs).                     *)
(***************************************************************************)
StringT == [k |-> "String"]
Bool == [k |-> "bool"]
U8 == [k |-> "uint", bits |-> 8]
U16 == [k |-> "uint", bits |-> 16]
U32 == [k |-> "uint", bits |-> 32]
U64 == [k |-> "uint", bits |-> 64]
I32 == [k |-> "int", bits |-> 32]
Option(T) == [k |-> "Option", of |-> T]
Vec(T) == [k |-> "Vec", of |-> T]
\* HashMap<TimePeriod, T>
HashMap(T) == [k |-> "HashMap", of |-> T]
Struct(name) == [k |-> "struct", name |-> name]

\* One field of a struct: its Rust name, its wire key (the serde rename, or
\* the Rust name when there is none) and its type.
Field(field, key, type) == [field |-> field, key |-> <<key>>, type |-> type]

ProtocolInfo == <<
    Field("fees_24h_usdc", "fees24hUsdc", StringT),
    Field("revenue_24h_usdc", "revenue24hUsdc", StringT),
    Field("tvl", "tvl", StringT),
    Field("volume_24h_usdc", "volume24hUsdc", StringT) >>

TokenStats == << Field("h24", "24h", Struct("TokenVolume")) >>

TokenVolume == << Field("volume", "volume", StringT) >>

TokenInfo == <<
    Field("circulating_supply", "circulatingSupply", StringT),
    Field("description", "description", StringT),
    Field("image_url", "imageUrl", StringT),
    Field("name", "name", StringT),
    Field("price", "price", StringT),
    Field("stats", "stats", Struct("TokenStats")),
    Field("symbol", "symbol", StringT),
    Field("total_supply", "totalSupply", StringT) >>

CirculatingSupplyResponse ==
    << Field("circulating_supply", "circulating_supply", StringT) >>

TotalSupplyResponse == << Field("total_supply", "total_supply", StringT) >>

\* Paginated<T>
Paginated(T) == << Field("data", "data", Vec(T)), Field("meta", "meta", Struct("Meta")) >>

Meta == <<
    Field("next", "next", Option(StringT)),
    Field("previous", "previous", Option(StringT)) >>

Token == <<
    Field("address", "address", StringT),
    Field("decimals", "decimals", U8),
    Field("extensions", "extensions", StringT),
    Field("freeze_authority", "freezeAuthority", Option(StringT)),
    Field("is_initialized", "isInitialized", Bool),
    Field("metadata", "metadata", StringT),
    Field("mint_authority", "mintAuthority", Option(StringT)),
    Field("price_usdc", "priceUsdc", StringT),
    Field("stats", "stats", StringT),
    Field("supply", "supply", StringT),
    Field("tags", "tags", StringT),
    Field("token_program", "tokenProgram", StringT),
    Field("updated_at", "updatedAt", StringT),
    Field("updated_epoch", "updatedEpoch", U64) >>

LockInfo == <<
    Field("locked_percentage", "lockedPercentage", StringT),
    Field("name", "name", StringT) >>

Whirlpool == <<
    Field("address", "address", StringT),
    Field("fee_growth_global_a", "feeGrowthGlobalA", StringT),
    Field("fee_growth_global_b", "feeGrowthGlobalB", StringT),
    Field("fee_rate", "feeRate", U32),
    Field("liquidity", "liquidity", StringT),
    Field("protocol_fee_owed_a", "protocolFeeOwedA", StringT),
    Field("protocol_fee_owed_b", "protocolFeeOwedB", StringT),
    Field("protocol_fee_rate", "protocolFeeRate", U32),
    Field("reward_last_updated_timestamp", "rewardLastUpdatedTimestamp", StringT),
    Field("sqrt_price", "sqrtPrice", StringT),
    Field("tick_current_index", "tickCurrentIndex", I32),
    Field("tick_spacing", "tickSpacing", U16),
    Field("tick_spacing_seed", "tickSpacingSeed", StringT),
    Field("token_mint_a", "tokenMintA", StringT),
    Field("token_mint_b", "tokenMintB", StringT),
    Field("token_vault_a", "tokenVaultA", Vec(U64)),
    Field("token_vault_b", "tokenVaultB", StringT),
    Field("updated_at", "updatedAt", StringT),
    Field("updated_slot", "updatedSlot", U64),
    Field("whirlpool_bump", "whirlpoolBump", StringT),
    Field("whirlpools_config", "whirlpoolsConfig", StringT),
    Field("write_version", "writeVersion", StringT),
    Field("adaptive_fee", "adaptiveFee", Option(Struct("AdaptiveFee"))),
    Field("adaptive_fee_enabled", "adaptiveFeeEnabled", Bool),
    Field("address_lookup_table", "addressLookupTable", Vec(U64)),
    Field("fee_tier_index", "feeTierIndex", U32),
    Field("has_warning", "hasWarning", Bool),
    Field("locked_liquidity_percent", "lockedLiquidityPercent",
          Option(Vec(Struct("LockInfo")))),
    Field("pool_type", "poolType", StringT),
    Field("price", "price", StringT),
    Field("rewards", "rewards", Vec(Struct("Reward"))),
    Field("stats", "stats", HashMap(Struct("PoolStats"))),
    Field("token_a", "tokenA", Struct("SimpleTokenInfo")),
    Field("token_b", "tokenB", Struct("SimpleTokenInfo")),
    Field("token_balance_a", "tokenBalanceA", StringT),
    Field("token_balance_b", "tokenBalanceB", StringT),
    Field("trade_enable_timestamp", "tradeEnableTimestamp", StringT),
    Field("tvl_usdc", "tvlUsdc", StringT),
    Field("yield_over_tvl", "yieldOverTvl", StringT) >>

AdaptiveFee == <<
    Field("constants", "constants", Struct("AdaptiveFeeConstants")),
    Field("current_rate", "currentRate", U32),
    Field("max_rate", "maxRate", U32),
    Field("variables", "variables", Struct("AdaptiveFeeVariables")) >>

AdaptiveFeeConstants == <<
    Field("adaptive_fee_control_factor", "adaptiveFeeControlFactor", U32),
    Field("decay_period", "decayPeriod", U32),
    Field("filter_period", "filterPeriod", U32),
    Field("major_swap_threshold_ticks", "majorSwapThresholdTicks", U32),
    Field("max_volatility_accumulator", "maxVolatilityAccumulator", U32),
    Field("reduction_factor", "reductionFactor", U32),
    Field("tick_group_size", "tickGroupSize", U32) >>

AdaptiveFeeVariables == <<
    Field("last_major_swap_timestamp", "lastMajorSwapTimestamp", StringT),
    Field("last_reference_update_timestamp", "lastReferenceUpdateTimestamp", StringT),
    Field("tick_group_index_reference", "tickGroupIndexReference", I32),
    Field("volatility_accumulator", "volatilityAccumulator", U32),
    Field("volatility_reference", "volatilityReference", U32) >>

Reward == <<
    Field("authority", "authority", StringT),
    Field("emissions_per_second_x64", "emissions_per_second_x64", StringT),
    Field("growth_global_x64", "growth_global_x64", StringT),
    Field("mint", "mint", StringT),
    Field("vault", "vault", StringT),
    Field("active", "active", Bool),
    Field("emissions_per_second", "emissionsPerSecond", StringT) >>

PoolStats == <<
    Field("fees", "fees", StringT),
    Field("rewards", "rewards", StringT),
    Field("volume", "volume", StringT),
    Field("yield_over_tvl", "yieldOverTvl", StringT) >>

SimpleTokenInfo == <<
    Field("address", "address", StringT),
    Field("decimals", "decimals", U8),
    Field("image_url", "imageUrl", StringT),
    Field("name", "name", StringT),
    Field("program_id", "programId", StringT),
    Field("symbol", "symbol", StringT),
    Field("tags", "tags", StringT) >>

\* The fields of the struct of a name, in declaration order.
StructFields(name) ==
    CASE name = "ProtocolInfo"              -> ProtocolInfo
      [] name = "TokenStats"                -> TokenStats
      [] name = "TokenVolume"               -> TokenVolume
      [] name = "TokenInfo"                 -> TokenInfo
      [] name = "CirculatingSupplyResponse" -> CirculatingSupplyResponse
      [] name = "TotalSupplyResponse"       -> TotalSupplyResponse
      [] name = "Paginated<Token>"          -> Paginated(Struct("Token"))
      [] name = "Paginated<Whirlpool>"      -> Paginated(Struct("Whirlpool"))
      [] name = "Meta"                      -> Meta
      [] name = "Token"                     -> Token
      [] name = "LockInfo"                  -> LockInfo
      [] name = "Whirlpool"                 -> Whirlpool
      [] name = "AdaptiveFee"               -> AdaptiveFee
      [] name = "AdaptiveFeeConstants"      -> AdaptiveFeeConstants
      [] name = "AdaptiveFeeVariables"      -> AdaptiveFeeVariables
      [] name = "Reward"                    -> Reward
      [] name = "PoolStats"                 -> PoolStats
      [] name = "SimpleTokenInfo"           -> SimpleTokenInfo

(***************************************************************************)
(* serde's Deserialize for those types, as #[derive(Deserialize)] and      *)
(* serde_json implement it.  The outcome is an error or the value.         *)
(***************************************************************************)
Fail == [ok |-> FALSE, value |-> <<>>]
Done(value) == [ok |-> TRUE, value |-> value]

\* Whether an integer fits the type.  Every number a document of the model
\* holds is within 32 bits.
InRange(type, n) ==
    IF type.k = "int" THEN TRUE
    ELSE n >= 0 /\ (type.bits >= 31 \/ n < 2 ^ type.bits)

\* A variant of MissingField that requires every field, Option or not.
MissingField_Required(type) == Fail

\* A field with no member in the object: an Option is None, any other
\* type is the error "missing field".
MissingField(type) == IF type.k = "Option" THEN Done(None) ELSE Fail

\* A variant of UnknownFields that rejects them (deny_unknown_fields).
UnknownFields_Denied(keys) == keys = {}

\* Members whose key is no field of the struct are skipped.
UnknownFields(keys) == TRUE

\* HashMap::insert: the value of an equal key is replaced.
Insert(map, key, value) ==
    [x \in (DOMAIN map) \cup {key} |-> IF x = key THEN value ELSE map[x]]

RECURSIVE Deserialize(_, _)
RECURSIVE VisitEntries(_, _, _)

\* A variant of DeserializeVec that leaves out the elements in error.
DeserializeVec_SkipInvalid(type, xs) ==
    LET rs   == [i \in 1..Len(xs) |-> Deserialize(type, xs[i])]
        kept == SelectSeq(rs, LAMBDA r : r.ok)
    IN  Done([i \in 1..Len(kept) |-> kept[i].value])

\* Vec<T> from the elements of an array: every element, in order; the first
\* error is the error of the whole.
DeserializeVec(type, xs) ==
    LET rs == [i \in 1..Len(xs) |-> Deserialize(type, xs[i])]
    IN  IF \A i \in 1..Len(xs) : rs[i].ok
        THEN Done([i \in 1..Len(xs) |-> rs[i].value])
        ELSE Fail

\* A variant of UnknownVariant that skips the entry.
UnknownVariant_Skipped(type, rest, map) == VisitEntries(type, rest, map)

\* A map key that is no TimePeriod literal: the error "unknown variant".
UnknownVariant(type, rest, map) == Fail

\* HashMap<TimePeriod, T> from the members of an object, in document order.
VisitEntries(type, ms, map) ==
    IF ms = <<>> THEN Done(map)
    ELSE LET key == TimePeriodDeserialize(Head(ms).k)
         IN  IF ~IsSome(key) THEN UnknownVariant(type, Tail(ms), map)
             ELSE LET val == Deserialize(type, Head(ms).v)
                  IN  IF ~val.ok THEN Fail
                      ELSE VisitEntries(type, Tail(ms),
                                        Insert(map, Unwrap(key), val.value))

\* A derived struct from the members of an object (visit_map): a member is
\* matched to the field with its key; a key met twice is the error
\* "duplicate field"; a field with no member is MissingField.
VisitMap(fields, ms) ==
    LET keys    == { fields[n].key : n \in 1..Len(fields) }
        unknown == { ms[i].k : i \in { j \in 1..Len(ms) : ms[j].k \notin keys } }
        r(n)    == LET at == SelectSeq(ms, LAMBDA m : m.k = fields[n].key)
                   IN  IF at = <<>> THEN MissingField(fields[n].type)
                       ELSE IF Len(at) > 1 THEN Fail
                       ELSE Deserialize(fields[n].type, at[1].v)
        rs      == [n \in 1..Len(fields) |-> r(n)]
    IN  IF UnknownFields(unknown) /\ \A n \in 1..Len(fields) : rs[n].ok
        THEN Done([x \in { fields[n].field : n \in 1..Len(fields) } |->
                      rs[CHOOSE n \in 1..Len(fields) : fields[n].field = x].value])
        ELSE Fail

\* A derived struct from an array (visit_seq): the fields by position, as
\* many elements as fields.
VisitSeq(fields, xs) ==
    LET rs == [n \in 1..Len(fields) |->
                  IF n <= Len(xs) THEN Deserialize(fields[n].type, xs[n]) ELSE Fail]
    IN  IF Len(xs) = Len(fields) /\ \A n \in 1..Len(fields) : rs[n].ok
        THEN Done([x \in { fields[n].field : n \in 1..Len(fields) } |->
                      rs[CHOOSE n \in 1..Len(fields) : fields[n].field = x].value])
        ELSE Fail

Deserialize(type, j) ==
    CASE type.k = "String" ->
             IF Kind(j) = "str" THEN Done(Unescape(Content(j))) ELSE Fail
      [] type.k = "bool" ->
             IF Kind(j) = "bool" THEN Done(Content(j)) ELSE Fail
      [] type.k \in {"uint", "int"} ->
             IF Kind(j) = "num" /\ InRange(type, Content(j)) THEN Done(Content(j)) ELSE Fail
      [] type.k = "Option" ->
             IF Kind(j) = "null" THEN Done(None)
             ELSE LET r == Deserialize(type.of, j)
                  IN  IF r.ok THEN Done(Some(r.value)) ELSE Fail
      [] type.k = "Vec" ->
             IF Kind(j) = "arr" THEN DeserializeVec(type.of, Content(j)) ELSE Fail
      [] type.k = "HashMap" ->
             IF Kind(j) = "obj" THEN VisitEntries(type.of, Content(j), <<>>) ELSE Fail
      [] type.k = "struct" ->
             IF Kind(j) = "obj" THEN VisitMap(StructFields(type.name), Content(j))
             ELSE IF Kind(j) = "arr" THEN VisitSeq(StructFields(type.name), Content(j))
             ELSE Fail

(***************************************************************************)
(* Responses.                                                              *)
(***************************************************************************)
Statuses == { 200, 404, 500 }

\* The type each endpoint method decodes the body into.
TargetType(method) ==
    CASE method = "get_protocol_info"      -> Struct("ProtocolInfo")
      [] method = "get_token_info"         -> Struct("TokenInfo")
      [] method = "get_circulating_supply" -> Struct("CirculatingSupplyResponse")
      [] method = "get_total_supply"       -> Struct("TotalSupplyResponse")
      [] method = "get_tokens"             -> Struct("Paginated<Token>")
      [] method = "search_tokens"          -> Struct("Paginated<Token>")
      [] method = "get_token"              -> Struct("Paginated<Token>")
      [] method = "get_lock_info"          -> Vec(Struct("LockInfo"))
      [] method = "get_pools"              -> Struct("Paginated<Whirlpool>")
      [] method = "search_pools"           -> Struct("Paginated<Whirlpool>")
      [] method = "get_pool"               -> Struct("Paginated<Whirlpool>")

\* A response body: text that is not JSON, or a JSON document.
NotJson == [json |-> FALSE, doc |-> JNull]
JsonOf(doc) == [json |-> TRUE, doc |-> doc]

\* response.json::<T>() (serde_json::from_slice): the body must be a JSON
\* document, and the document must deserialize as T.  The status of the
\* response is not consulted.
FromSlice(type, body) == IF body.json THEN Deserialize(type, body.doc) ELSE Fail

JsonDecodes(type, body) == FromSlice(type, body).ok

(***************************************************************************)
(* The documents a server may send.                                        *)
(***************************************************************************)
\* What a server writes between the quotes of a JSON string for a text.
EscapeChar(c) ==
    CASE c = "\"" -> "\\\""
      [] c = "\\" -> "\\\\"
      [] c = "\n" -> "\\n"
      [] OTHER    -> c

JsonEscape(s) == [i \in 1..Len(s) |-> EscapeChar(s[i])]

\* Texts a server may put in a string field: JSON text of an object, JSON
\* text of another schema, and text that is not JSON.
Texts ==
    { <<"{", "}">>,
      <<"{", "\"", "a", "\"", ":", "[", "1", "]", "}">>,
      <<"C:", "\\", "x", "\n", "{">> }

RECURSIVE Sample(_, _)
\* A valid document of a type, every Option present; strings hold tag.
Sample(type, tag) ==
    CASE type.k = "String"  -> JStr(<<tag>>)
      [] type.k = "bool"    -> JBool(TRUE)
      [] type.k = "uint"    -> JNum(9)
      [] type.k = "int"     -> JNum(-9)
      [] type.k = "Option"  -> Sample(type.of, tag)
      [] type.k = "Vec"     -> JArr(<<Sample(type.of, tag)>>)
      [] type.k = "HashMap" ->
             JObj(<<Member(<<"5", "m">>, Sample(type.of, "5m")),
                    Member(<<"2", "4", "h">>, Sample(type.of, "24h"))>>)
      [] type.k = "struct"  ->
             LET fields == StructFields(type.name)
             IN  JObj([n \in 1..Len(fields) |->
                         Member(fields[n].key,
                                Sample(fields[n].type, fields[n].field))])

\* Values of another JSON kind than the type reads (null apart).
WrongType(type) ==
    CASE type.k = "String"  -> { JNum(9), JObj(<<>>) }
      [] type.k = "bool"    -> { JStr(<<"true">>) }
      [] type.k = "uint"    ->
             { JFloat(95), JNum(-1) }
                 \cup (IF type.bits < 31 THEN { JNum(2 ^ type.bits) } ELSE {})
      [] type.k = "int"     -> { JStr(<<"9">>), JFloat(95) }
      [] type.k = "Vec"     -> { JObj(<<>>) }
      [] type.k = "HashMap" -> { JArr(<<>>) }
      [] type.k = "struct"  -> { JStr(<<"{}">>) }

\* The type behind an Option.
Inner(type) == IF type.k = "Option" THEN type.of ELSE type

\* The members ms with the value of key replaced, and with key removed.
Replace(ms, key, value) ==
    [i \in 1..Len(ms) |-> IF ms[i].k = key THEN Member(key, value) ELSE ms[i]]

Without(ms, key) == SelectSeq(ms, LAMBDA m : m.k # key)

\* A few documents that are in error for a type that is no Option: null, a
\* value of another kind, a struct without its first field.
Broken(type) ==
    { JNull } \cup WrongType(type)
        \cup (IF type.k = "struct"
                  /\ StructFields(type.name)[1].type.k # "Option"
              THEN { JObj(Tail(Content(Sample(type, "item")))) }
              ELSE {})

\* Values of members no struct has a field for.
UnknownValues ==
    { JNull, JStr(<<"new">>), JObj(<<Member(<<"address">>, JNum(1))>>) }

\* The Rust names of the renamed fields: keys of no rename table.
RustNames(fields) ==
    { <<fields[n].field>> : n \in { m \in 1..Len(fields) :
                                      <<fields[m].field>> # fields[m].key } }

\* One of them, if there is any.
UnknownKeys(fields) ==
    IF RustNames(fields) = {} THEN {}
    ELSE { CHOOSE key \in RustNames(fields) : TRUE }

\* The arrays of 2..MaxItems elements, one of them b and the others s.
OneAmong(s, b) ==
    { [i \in 1..n |-> IF i = p THEN b ELSE s] :
          n \in 2..MaxItems, p \in 1..MaxItems }

RECURSIVE Docs(_, _)
\* The documents offered for a type: the sample and the documents one edit
\* away from it, at any depth.
Docs(type, tag) ==
    CASE type.k = "String"  -> { JStr(JsonEscape(t)) : t \in Texts }
      [] type.k = "bool"    -> { JBool(FALSE) }
      [] type.k \in {"uint", "int"} -> { JNum(0) }
      [] type.k = "Option"  -> Docs(type.of, tag)
      [] type.k = "Vec"     ->
             LET s == Sample(type.of, tag)
             IN  { JArr(<<>>) }
                     \cup { JArr(<<d>>) : d \in Docs(type.of, tag) \cup Broken(type.of) }
                     \cup { JArr(xs) : xs \in UNION { OneAmong(s, b) : b \in Broken(type.of) } }
      [] type.k = "HashMap" ->
             LET s == Content(Sample(type, tag))
                 v == Sample(type.of, "more")
             IN  { JObj(<<>>), JObj(s) }
                     \cup { JObj(s \o <<Member(key, v)>>) :
                                key \in { <<"7", "d">>, <<"H24">>, <<"2", "4", "H">>,
                                          <<"5", "m">>, <<"1", "h">> } }
                     \cup { JObj(Replace(s, <<"5", "m">>, d)) :
                                d \in Docs(type.of, tag) \cup Broken(type.of) }
      [] type.k = "struct"  ->
             LET fields == StructFields(type.name)
                 s      == Content(Sample(type, tag))
                 N      == 1..Len(fields)
             IN  { JObj(s), JArr([n \in N |-> s[n].v]) }
                     \cup { JObj(Without(s, fields[n].key)) : n \in N }
                     \cup { JObj(Replace(s, fields[n].key, JNull)) : n \in N }
                     \cup { JObj(s \o <<s[1]>>) }
                     \cup UNION { { JObj(Replace(s, fields[n].key, d)) :
                                      d \in WrongType(Inner(fields[n].type))
                                              \cup Docs(fields[n].type, fields[n].field) } :
                                  n \in N }
                     \cup { JObj(s \o <<Member(<<"extra">>, u)>>) : u \in UnknownValues }
                     \cup { JObj(<<Member(key, JNull)>> \o s) : key \in UnknownKeys(fields) }

\* The error document of a server (no type of the client reads it).
ErrorDocument == JObj(<<Member(<<"error">>, JStr(<<"not found">>))>>)

\* The bodies a server answers a call of method with, in short: text that
\* is not JSON, an error document, or a valid document of the method's type.
Bodies(method) ==
    { NotJson, JsonOf(ErrorDocument), JsonOf(Sample(TargetType(method), "value")) }

\* An empty page, both cursors null (tests::test_search_tokens).
EmptyPage ==
    JObj(<<Member(<<"data">>, JArr(<<>>)),
           Member(<<"meta">>, JObj(<<Member(<<"next">>, JNull),
                                     Member(<<"previous">>, JNull)>>))>>)

\* A page of one element, one cursor null.
PageOf(element) ==
    JObj(<<Member(<<"data">>, JArr(<<element>>)),
           Member(<<"meta">>, JObj(<<Member(<<"next">>, JStr(<<"some-next-cursor">>)),
                                     Member(<<"previous">>, JNull)>>))>>)

\* A pool of a fee tier that is not adaptive: no adaptiveFee member.
PoolWithoutAdaptiveFee ==
    JObj(Replace(Without(Content(Sample(Struct("Whirlpool"), "value")), <<"adaptiveFee">>),
                 <<"adaptiveFeeEnabled">>, JBool(FALSE)))

\* Every document offered for each target type.
ProtocolInfoDocs == Docs(Struct("ProtocolInfo"), "value")
TokenInfoDocs == Docs(Struct("TokenInfo"), "value")
CirculatingSupplyDocs == Docs(Struct("CirculatingSupplyResponse"), "value")
TotalSupplyDocs == Docs(Struct("TotalSupplyResponse"), "value")
TokenPages == Docs(Struct("Paginated<Token>"), "value") \cup { EmptyPage }
LockInfoDocs == Docs(Vec(Struct("LockInfo")), "value")
WhirlpoolPages ==
    Docs(Struct("Paginated<Whirlpool>"), "value")
        \cup { EmptyPage, PageOf(PoolWithoutAdaptiveFee) }

\* The bodies a server answers a call of method with, in full.
AllBodies(method) ==
    { NotJson } \cup
    { JsonOf(d) : d \in
        CASE method = "get_protocol_info"      -> ProtocolInfoDocs
          [] method = "get_token_info"         -> TokenInfoDocs
          [] method = "get_circulating_supply" -> CirculatingSupplyDocs
          [] method = "get_total_supply"       -> TotalSupplyDocs
          [] method = "get_lock_info"          -> LockInfoDocs
          [] method \in {"get_tokens", "search_tokens", "get_token"} -> TokenPages
          [] method \in {"get_pools", "search_pools", "get_pool"}    -> WhirlpoolPages }



(***************************************************************************)
(* The state: one OrcaClient and the endpoint call in progress on it.      *)
(***************************************************************************)
VARIABLES
    client,     \* the OrcaClient: whether it is constructed, and base_url
    pc,         \* the call's position: "idle", "send" (before send().await),
                \* "json" (before json().await), "done" (returned)
    call,       \* the method called and its arguments
    url,        \* the URL the call built
    wire,       \* the request targets of the GETs the call has issued
    response,   \* the response send() returned
    result,     \* what the call returned to its caller
    others      \* the other calls on the client: futures that are not
                \* being polled, each with its own pc, call, url, wire,
                \* response and result

vars == <<client, pc, call, url, wire, response, result, others>>

NoCall == [method |-> "", chain |-> <<>>, id |-> <<>>, params |-> <<>>]
NoResponse == [received |-> FALSE, status |-> 0, body |-> NotJson]
NoResult == [kind |-> "none", cause |-> "", value |-> <<>>]
Ok(value) == [kind |-> "ok", cause |-> "", value |-> value]
Err(cause) == [kind |-> "err", cause |-> cause, value |-> <<>>]

Init ==
    /\ client = [constructed |-> FALSE, base_url |-> <<>>]
    /\ pc = "idle"
    /\ call = NoCall
    /\ url = ParseError
    /\ wire = <<>>
    /\ response = NoResponse
    /\ result = NoResult
    /\ others = <<>>

\* OrcaClient::new
New ==
    /\ ~client.constructed
    /\ client' = [constructed |-> TRUE, base_url |-> BASE_URL]
    /\ UNCHANGED <<pc, call, url, wire, response, result, others>>

\* OrcaClient::with_base_url: stores the text as given; it cannot fail.
WithBaseUrl ==
    /\ ~client.constructed
    /\ \E b \in BaseUrls : client' = [constructed |-> TRUE, base_url |-> b]
    /\ UNCHANGED <<pc, call, url, wire, response, result, others>>

\* A variant of PropagatePc that sends again after an error.
PropagatePc_Retry == "send"

\* Where `?` leaves the call after an error: it has returned.
PropagatePc == "done"

\* A variant of BeginParsed that goes on to send() without looking at the
\* outcome of Url::parse.
BeginParsed_Unchecked(method, chain, id, params, u) ==
    /\ client.constructed
    /\ pc = "idle"
    /\ call' = [method |-> method, chain |-> chain, id |-> id, params |-> params]
    /\ url' = u
    /\ wire' = <<>>
    /\ response' = NoResponse
    /\ pc' = "send"
    /\ result' = NoResult
    /\ UNCHANGED <<client, others>>

\* A method that calls Url::parse(..)? itself: a parse error returns at
\* once; otherwise the call goes on to send().
BeginParsed(method, chain, id, params, u) ==
    /\ client.constructed
    /\ pc = "idle"
    /\ call' = [method |-> method, chain |-> chain, id |-> id, params |-> params]
    /\ url' = u
    /\ wire' = <<>>
    /\ response' = NoResponse
    /\ IF u.ok
       THEN pc' = "send" /\ result' = NoResult
       ELSE pc' = PropagatePc /\ result' = Err("url")
    /\ UNCHANGED <<client, others>>

\* A path-only method: the text goes to Client::get, and the call goes on
\* to send() whether or not the text parsed.
BeginText(method, chain, id, u) ==
    /\ client.constructed
    /\ pc = "idle"
    /\ call' = [method |-> method, chain |-> chain, id |-> id, params |-> <<>>]
    /\ url' = u
    /\ wire' = <<>>
    /\ response' = NoResponse
    /\ pc' = "send"
    /\ result' = NoResult
    /\ UNCHANGED <<client, others>>

GetProtocolInfo ==
    \E chain \in Chains :
        BeginText("get_protocol_info", chain, <<>>,
                  ProtocolInfoUrl(client.base_url, chain))

GetTokenInfo ==
    \E chain \in Chains :
        BeginText("get_token_info", chain, <<>>,
                  TokenInfoUrl(client.base_url, chain))

GetCirculatingSupply ==
    \E chain \in Chains :
        BeginText("get_circulating_supply", chain, <<>>,
                  CirculatingSupplyUrl(client.base_url, chain))

GetTotalSupply ==
    \E chain \in Chains :
        BeginText("get_total_supply", chain, <<>>,
                  TotalSupplyUrl(client.base_url, chain))

\* k: the most optional filters a call carries.
GetTokens(k) ==
    /\ client.constructed
    /\ pc = "idle"
    /\ \E chain \in Chains, I \in Presence(GetTokensFilters, k) :
         \E params \in ParamsOn(GetTokensFilters, I) :
           BeginParsed("get_tokens", chain, <<>>, params,
                       GetTokensUrl(client.base_url, chain, params))

SearchTokens ==
    \E chain \in Chains, query \in SearchTexts :
        BeginParsed("search_tokens", chain, query, <<>>,
                    SearchTokensUrl(client.base_url, chain, query))

GetToken ==
    \E chain \in Chains, mint_address \in Identifiers :
        BeginText("get_token", chain, mint_address,
                  GetTokenUrl(client.base_url, chain, mint_address))

GetLockInfo ==
    \E chain \in Chains, address \in Identifiers :
        BeginText("get_lock_info", chain, address,
                  GetLockInfoUrl(client.base_url, chain, address))

GetPools(k) ==
    /\ client.constructed
    /\ pc = "idle"
    /\ \E chain \in Chains, I \in Presence(GetPoolsFilters, k) :
         \E params \in ParamsOn(GetPoolsFilters, I) :
           BeginParsed("get_pools", chain, <<>>, params,
                       GetPoolsUrl(client.base_url, chain, params))

SearchPools(k) ==
    /\ client.constructed
    /\ pc = "idle"
    /\ \E chain \in Chains, q \in SearchTexts,
          I \in Presence(SearchPoolsFilters, k) :
         \E params \in ParamsOn(SearchPoolsFilters, I) :
           BeginParsed("search_pools", chain, q, params,
                       SearchPoolsUrl(client.base_url, chain, q, params))

GetPool ==
    \E chain \in Chains, address \in Identifiers :
        BeginText("get_pool", chain, address,
                  GetPoolUrl(client.base_url, chain, address))

\* self.client.get(url).send().await?
\* A URL that did not parse is returned as an error and nothing is sent.
\* Otherwise one GET is issued; the transport fails, or a response of any
\* status arrives.  send() does not turn a status into an error.
\* all: whether the server answers 200 with one of AllBodies, or any status
\* with one of Bodies.
Send(all) ==
    /\ pc = "send"
    /\ \/ /\ ~url.ok
          /\ pc' = PropagatePc
          /\ result' = Err("url")
          /\ UNCHANGED <<wire, response>>
       \/ /\ url.ok
          /\ wire' = Append(wire, RequestTarget(url))
          /\ \/ /\ pc' = PropagatePc
                /\ result' = Err("transport")
                /\ UNCHANGED response
             \/ /\ \E status \in (IF all THEN {200} ELSE Statuses),
                      body \in (IF all THEN AllBodies(call.method)
                                ELSE Bodies(call.method)) :
                       response' = [received |-> TRUE, status |-> status,
                                    body |-> body]
                /\ pc' = "json"
                /\ UNCHANGED result
    /\ UNCHANGED <<client, call, url, others>>

\* response.json::<T>().await?  then Ok(value)
Json ==
    /\ pc = "json"
    /\ LET decoded == FromSlice(TargetType(call.method), response.body)
       IN  IF decoded.ok
           THEN pc' = "done" /\ result' = Ok(decoded.value)
           ELSE pc' = PropagatePc /\ result' = Err("decode")
    /\ UNCHANGED <<client, call, url, wire, response, others>>

\* The caller takes the result; the client is ready for its next call.
Return ==
    /\ pc = "done"
    /\ pc' = "idle"
    /\ call' = NoCall
    /\ url' = ParseError
    /\ wire' = <<>>
    /\ response' = NoResponse
    /\ result' = NoResult
    /\ UNCHANGED <<client, others>>

\* The caller drops the future at one of its await points.
DropFuture ==
    /\ pc \in {"send", "json"}
    /\ pc' = "idle"
    /\ call' = NoCall
    /\ url' = ParseError
    /\ wire' = <<>>
    /\ response' = NoResponse
    /\ result' = NoResult
    /\ UNCHANGED <<client, others>>

\* What a future keeps of its call while it is not polled.
Suspended ==
    [pc |-> pc, call |-> call, url |-> url, wire |-> wire,
     response |-> response, result |-> result]

NotStarted ==
    [pc |-> "idle", call |-> NoCall, url |-> ParseError, wire |-> <<>>,
     response |-> NoResponse, result |-> NoResult]

\* The caller starts another future that will call methods on the same
\* client (&self is shared).
Spawn ==
    /\ client.constructed
    /\ Len(others) < MaxCalls - 1
    /\ others' = Append(others, NotStarted)
    /\ UNCHANGED <<client, pc, call, url, wire, response, result>>

\* A variant of ResumedUrl in which the URL of a call is kept in a place
\* the calls share.
ResumedUrl_Shared(future) == url

\* The URL of a future that is polled again: its own.
ResumedUrl(future) == future.url

\* The executor polls another future; the one it was polling waits.
Switch ==
    \E i \in 1..Len(others) :
        /\ others' = [others EXCEPT ![i] = Suspended]
        /\ pc' = others[i].pc
        /\ call' = others[i].call
        /\ url' = ResumedUrl(others[i])
        /\ wire' = others[i].wire
        /\ response' = others[i].response
        /\ result' = others[i].result
        /\ UNCHANGED client

\* The calls of a client whose list and search calls carry at most one
\* optional filter.
Next ==
    \/ New
    \/ WithBaseUrl
    \/ GetProtocolInfo
    \/ GetTokenInfo
    \/ GetCirculatingSupply
    \/ GetTotalSupply
    \/ GetTokens(1)
    \/ SearchTokens
    \/ GetToken
    \/ GetLockInfo
    \/ GetPools(1)
    \/ SearchPools(1)
    \/ GetPool
    \/ Send(FALSE)
    \/ Json
    \/ Return
    \/ DropFuture

Spec == Init /\ [][Next]_vars

\* The Request Builder of the list and search methods, on the client of
\* OrcaClient::new() and the whole bounded parameter space: a call is
\* started and its future dropped.
NextBuild ==
    \/ New
    \/ GetTokens(MaxFilters)
    \/ SearchTokens
    \/ GetPools(MaxFilters)
    \/ SearchPools(MaxFilters)
    \/ DropFuture

SpecBuild == Init /\ [][NextBuild]_vars

\* The Response Mapper: calls of one method for each target type, with no
\* filter, on the client of OrcaClient::new(), answered from AllBodies.
NextDecode ==
    \/ New
    \/ GetProtocolInfo
    \/ GetTokenInfo
    \/ GetCirculatingSupply
    \/ GetTotalSupply
    \/ GetTokens(0)
    \/ GetLockInfo
    \/ GetPools(0)
    \/ Send(TRUE)
    \/ Json
    \/ Return

SpecDecode == Init /\ [][NextDecode]_vars

\* Up to MaxCalls calls in progress at once on one client, interleaved in
\* every way.
NextConcurrent ==
    \/ New
    \/ WithBaseUrl
    \/ GetProtocolInfo
    \/ GetTokenInfo
    \/ Send(FALSE)
    \/ Json
    \/ Return
    \/ Spawn
    \/ Switch

SpecConcurrent == Init /\ [][NextConcurrent]_vars

(***************************************************************************)
(* What a server reads from a request: the query string split at "&", each *)
(* piece split at its first "=", key and value form-decoded.               *)
(***************************************************************************)
\* The inverse of ByteSerialize.
ByteParse(c) ==
    CASE c = "+"   -> " "
      [] c = "%26" -> "&"
      [] c = "%3D" -> "="
      [] c = "%3F" -> "?"
      [] c = "%23" -> "#"
      [] c = "%2F" -> "/"
      [] c = "%2C" -> ","
      [] c = "%22" -> "\""
      [] c = "%25" -> "%"
      [] c = "%2B" -> "+"
      [] OTHER     -> c

FormDecode(s) == [i \in 1..Len(s) |-> ByteParse(s[i])]

RECURSIVE SplitOn(_, _)
SplitOn(s, c) ==
    LET i == IndexOf(s, c)
    IN  IF i = 0 THEN <<s>>
        ELSE <<SubSeq(s, 1, i - 1)>> \o SplitOn(SubSeq(s, i + 1, Len(s)), c)

PairOf(piece) ==
    LET i == IndexOf(piece, "=")
    IN  IF i = 0 THEN [key |-> FormDecode(piece), value |-> <<>>]
        ELSE [key   |-> FormDecode(SubSeq(piece, 1, i - 1)),
              value |-> FormDecode(SubSeq(piece, i + 1, Len(piece)))]

QueryPairs(u) ==
    IF u.query = <<>> THEN <<>>
    ELSE LET pieces == SplitOn(u.query, "&")
         IN  [i \in 1..Len(pieces) |-> PairOf(pieces[i])]

Keys(u) == LET ps == QueryPairs(u) IN [i \in 1..Len(ps) |-> ps[i].key]

\* The values of the pairs of u whose key is k, in their order.
ValuesOf(u, k) ==
    LET ps == SelectSeq(QueryPairs(u), LAMBDA p : p.key = k)
    IN  [i \in 1..Len(ps) |-> ps[i].value]

\* The path of base_url (what follows its host).
BasePath(base_url) == SubSeq(base_url, 4, Len(base_url))

TableOf(method) ==
    CASE method = "get_tokens"   -> GetTokensFilters
      [] method = "get_pools"    -> GetPoolsFilters
      [] method = "search_pools" -> SearchPoolsFilters

\* A list, filter or search call has built its URL.
Built(methods) == pc # "idle" /\ call.method \in methods /\ url.ok

(***************************************************************************)
(* C1.  In get_tokens, get_pools and search_pools a filter that is None    *)
(* contributes no key to the query string.  get_pools with                 *)
(* GetPoolsParams::default() requests <base>/{chain}/pools with an empty   *)
(* query string, and search_pools with only q set emits exactly q=<value>. *)
(***************************************************************************)
C1_UnsetFiltersEmitNoKey ==
    Built({"get_tokens", "get_pools", "search_pools"}) =>
        LET table == TableOf(call.method)
            keys  == Keys(url)
        IN  /\ \A i \in 1..Len(table) :
                   call.params[table[i].field] = None
                       => table[i].key \notin Range(keys)
            /\ (call.method = "get_pools" /\ call.params = Default(table)) =>
                   /\ url.path = BasePath(client.base_url) \o <<"/">>
                                     \o call.chain \o <<"/", "pools">>
                   /\ url.query = <<>>
            /\ (call.method = "get_tokens" /\ call.params = Default(table)) =>
                   url.query = <<>>
            /\ (call.method = "search_pools" /\ call.params = Default(table)) =>
                   /\ url.query = <<"q", "=">> \o FormEncode(call.id)
                   /\ QueryPairs(url) = << [key |-> <<"q">>, value |-> call.id] >>

C1_Witness ==
    /\ Built({"get_pools"})
    /\ call.params = Default(GetPoolsFilters)
    /\ RequestTarget(url) = <<"/", "v2", "/", "solana", "/", "pools", "?">>

(***************************************************************************)
(* C2.  An array-valued filter of get_pools (token, tokensBothOf,          *)
(* addresses, stats) or search_pools (stats, userTokens) with n elements   *)
(* yields exactly n pairs with its key, one per element, in the order of   *)
(* the elements.                                                           *)
(***************************************************************************)
C2_ArraysAreRepeatedKeys ==
    Built({"get_pools", "search_pools"}) =>
        LET table == TableOf(call.method)
        IN  \A i \in 1..Len(table) :
                LET e == table[i]
                    o == call.params[e.field]
                IN  (e.kind \in ArrayKinds /\ IsSome(o)) =>
                        ValuesOf(url, e.key) =
                            [j \in 1..Len(Unwrap(o)) |-> ElemText(e.kind, Unwrap(o)[j])]

C2_Witness ==
    /\ Built({"get_pools"})
    /\ call.params[<<"addresses">>] = Some(<< <<"X">>, <<"Y", ",", "Z">>, <<"X">> >>)
    /\ url.query = <<"addresses", "=", "X", "&",
                     "addresses", "=", "Y", "%2C", "Z", "&",
                     "addresses", "=", "X">>

(***************************************************************************)
(* C3.  The keys of a get_pools query string appear in the order sortBy,   *)
(* sortDirection, next, previous, hasRewards, hasWarning, hasAdaptiveFee,  *)
(* isWavebreak, minTvl, minVolume, minLockedLiquidityPercent, size, token, *)
(* tokensBothOf, addresses, stats, includeBlocked; those of get_tokens in  *)
(* the order next, previous, size, sort_by, sort_direction, tokens;        *)
(* whichever filters are present and whatever their values.                *)
(***************************************************************************)
C3_PoolsOrder == <<
    <<"sort", "By">>, <<"sort", "Direction">>, <<"next">>, <<"previous">>,
    <<"has", "Rewards">>, <<"has", "Warning">>, <<"has", "Adaptive", "Fee">>,
    <<"is", "Wavebreak">>, <<"min", "Tvl">>, <<"min", "Volume">>,
    <<"min", "Locked", "Liquidity", "Percent">>, <<"size">>, <<"token">>,
    <<"tokens", "Both", "Of">>, <<"addresses">>, <<"stats">>,
    <<"include", "Blocked">> >>

C3_TokensOrder == <<
    <<"next">>, <<"previous">>, <<"size">>, <<"sort", "_", "by">>,
    <<"sort", "_", "direction">>, <<"tokens">> >>

\* Every key is one of order, and the keys follow order.
InOrder(keys, order) ==
    /\ \A i \in 1..Len(keys) : keys[i] \in Range(order)
    /\ \A i, j \in 1..Len(keys) :
           i < j => IndexOf(order, keys[i]) <= IndexOf(order, keys[j])

C3_KeysInFixedOrder ==
    /\ Built({"get_pools"}) => InOrder(Keys(url), C3_PoolsOrder)
    /\ Built({"get_tokens"}) => InOrder(Keys(url), C3_TokensOrder)

C3_Witness ==
    /\ Built({"get_pools"})
    /\ IsSome(call.params[<<"include", "_", "blocked">>])
    /\ IsSome(call.params[<<"sort", "_", "by">>])
    /\ Keys(url) = << <<"sort", "By">>, <<"include", "Blocked">> >>

(***************************************************************************)
(* C4.  A search_pools or search_tokens request carries q exactly once, as *)
(* the first pair; an empty q is sent as "q=" with an empty value.  In     *)
(* search_pools the other keys follow in the order next, size, sortBy,     *)
(* sortDirection, minTvl, minVolume, stats, userTokens, hasRewards,        *)
(* verifiedOnly, hasLockedLiquidity.                                       *)
(***************************************************************************)
C4_SearchOrder == <<
    <<"q">>, <<"next">>, <<"size">>, <<"sort", "By">>, <<"sort", "Direction">>,
    <<"min", "Tvl">>, <<"min", "Volume">>, <<"stats">>, <<"user", "Tokens">>,
    <<"has", "Rewards">>, <<"verified", "Only">>,
    <<"has", "Locked", "Liquidity">> >>

C4_SearchCarriesQFirst ==
    Built({"search_pools", "search_tokens"}) =>
        /\ Len(QueryPairs(url)) >= 1
        /\ QueryPairs(url)[1] = [key |-> <<"q">>, value |-> call.id]
        /\ Len(ValuesOf(url, <<"q">>)) = 1
        /\ SubSeq(url.query, 1, 2) = <<"q", "=">>
        /\ call.id = <<>> => (Len(url.query) = 2 \/ url.query[3] = "&")
        /\ call.method = "search_pools" => InOrder(Keys(url), C4_SearchOrder)
        /\ call.method = "search_tokens" => Len(QueryPairs(url)) = 1

C4_Witness ==
    /\ Built({"search_pools"})
    /\ call.id = <<>>
    /\ url.query = <<"q", "=", "&", "size", "=", "1", "2", "0", "&",
                     "has", "Locked", "Liquidity", "=", "true">>

(***************************************************************************)
(* C5.  As claimed: in get_tokens and get_pools every present filter is    *)
(* emitted under the camelCase form of its snake_case field name, and no   *)
(* emitted key is a snake_case name.                                       *)
(* As amended: that holds of get_pools; get_tokens emits every present     *)
(* filter under its parameter name unchanged, so sort_by and               *)
(* sort_direction are emitted in snake_case.                               *)
(***************************************************************************)
Capitalize(w) ==
    CASE w = "by"        -> "By"
      [] w = "direction" -> "Direction"
      [] w = "rewards"   -> "Rewards"
      [] w = "warning"   -> "Warning"
      [] w = "adaptive"  -> "Adaptive"
      [] w = "fee"       -> "Fee"
      [] w = "wavebreak" -> "Wavebreak"
      [] w = "tvl"       -> "Tvl"
      [] w = "volume"    -> "Volume"
      [] w = "locked"    -> "Locked"
      [] w = "liquidity" -> "Liquidity"
      [] w = "percent"   -> "Percent"
      [] w = "both"      -> "Both"
      [] w = "of"        -> "Of"
      [] w = "blocked"   -> "Blocked"

RECURSIVE CamelCase(_)
\* snake_case to camelCase: drop each "_" and capitalize the word after it.
CamelCase(f) ==
    IF f = <<>> THEN <<>>
    ELSE IF Head(f) = "_"
         THEN <<Capitalize(f[2])>> \o CamelCase(SubSeq(f, 3, Len(f)))
         ELSE <<Head(f)>> \o CamelCase(Tail(f))

\* The fields of the call that are present and hold something to emit.
Emitting(table) ==
    { table[i].field : i \in
        { j \in 1..Len(table) :
            /\ IsSome(call.params[table[j].field])
            /\ table[j].kind \in ArrayKinds
                   => Unwrap(call.params[table[j].field]) # <<>> } }

CamelCaseKeys(table) ==
    /\ Range(Keys(url)) = { CamelCase(f) : f \in Emitting(table) }
    /\ \A k \in Range(Keys(url)) : "_" \notin Range(k)

C5_WireKeysAreCamelCase ==
    /\ Built({"get_pools"}) => CamelCaseKeys(GetPoolsFilters)
    /\ Built({"get_tokens"}) => CamelCaseKeys(GetTokensFilters)

C5_KeysPerEndpoint ==
    /\ Built({"get_pools"}) => CamelCaseKeys(GetPoolsFilters)
    /\ Built({"get_tokens"}) => Range(Keys(url)) = Emitting(GetTokensFilters)

C5_Witness ==
    /\ Built({"get_tokens"})
    /\ IsSome(call.params[<<"sort", "_", "by">>])
    /\ IsSome(call.params[<<"sort", "_", "direction">>])
    /\ Keys(url) = << <<"sort", "_", "by">>, <<"sort", "_", "direction">> >>

(***************************************************************************)
(* C6.  The value emitted for a stats element is the documented literal of *)
(* its TimePeriod variant (5m, 15m, 30m, 1h, 2h, 4h, 8h, 12h, 24h), with   *)
(* no quotes; decoding the literal as a TimePeriod yields the variant; and *)
(* distinct variants have distinct literals.                               *)
(***************************************************************************)
C6_Literal(v) ==
    CASE v = "M5"  -> <<"5", "m">>
      [] v = "M15" -> <<"1", "5", "m">>
      [] v = "M30" -> <<"3", "0", "m">>
      [] v = "H1"  -> <<"1", "h">>
      [] v = "H2"  -> <<"2", "h">>
      [] v = "H4"  -> <<"4", "h">>
      [] v = "H8"  -> <<"8", "h">>
      [] v = "H12" -> <<"1", "2", "h">>
      [] v = "H24" -> <<"2", "4", "h">>

C6_TimePeriodWireForm ==
    (Built({"get_pools", "search_pools"}) /\ IsSome(call.params[<<"stats">>])) =>
        LET xs   == Unwrap(call.params[<<"stats">>])
            vals == ValuesOf(url, <<"stats">>)
        IN  /\ Len(vals) = Len(xs)
            /\ \A j \in 1..Len(xs) :
                   /\ vals[j] = C6_Literal(xs[j])
                   /\ "\"" \notin Range(vals[j])
                   /\ TimePeriodDeserialize(vals[j]) = Some(xs[j])
                   /\ \A w \in TimePeriod \ {xs[j]} : StatsValue(w) # vals[j]

C6_Witness ==
    /\ Built({"search_pools"})
    /\ call.params[<<"stats">>] = Some(<<"H12">>)
    /\ call.id = <<"sol">>
    /\ url.query = <<"q", "=", "sol", "&", "stats", "=", "1", "2", "h">>

(***************************************************************************)
(* C7.  A path-only method requests base_url + its path template with     *)
(* chain and the identifier interpolated verbatim and with no query        *)
(* string, and no identifier is rejected before the request is issued.     *)
(***************************************************************************)
PathOnly ==
    {"get_protocol_info", "get_token_info", "get_circulating_supply",
     "get_total_supply", "get_token", "get_lock_info", "get_pool"}

C7_Template(method) ==
    CASE method = "get_protocol_info"      -> <<"protocol">>
      [] method = "get_token_info"         -> <<"protocol", "/", "token">>
      [] method = "get_circulating_supply" ->
             <<"protocol", "/", "token", "/", "circulating_supply">>
      [] method = "get_total_supply"       ->
             <<"protocol", "/", "token", "/", "total_supply">>
      [] method = "get_token"              -> <<"tokens", "/">> \o call.id
      [] method = "get_lock_info"          -> <<"lock", "/">> \o call.id
      [] method = "get_pool"               -> <<"pools", "/">> \o call.id

C7_PathOnlyVerbatim ==
    (pc # "idle" /\ call.method \in PathOnly /\ UrlParse(client.base_url).ok) =>
        /\ url.ok
        /\ ~url.has_query
        /\ url.path = BasePath(client.base_url) \o <<"/">> \o call.chain
                          \o <<"/">> \o C7_Template(call.method)

(***************************************************************************)
(* C8.  A response with a non-2xx status is returned to the caller as an   *)
(* error, whatever its body.                                               *)
(***************************************************************************)
IsSuccess(status) == status >= 200 /\ status < 300

C8_NonSuccessIsError ==
    (pc = "done" /\ response.received /\ ~IsSuccess(response.status)) =>
        result.kind = "err"

(***************************************************************************)
(* C9.  A base URL that does not compose into a valid URL fails when the   *)
(* client is constructed with it: no endpoint call ends with the error of  *)
(* URL composition.                                                        *)
(***************************************************************************)
C9_BadBaseUrlFailsAtConstruction ==
    ~(pc = "done" /\ result = Err("url"))

ValuesUnder(doc, key) ==
    IF Kind(doc) # "obj" THEN <<>>
    ELSE LET ms == SelectSeq(Content(doc), LAMBDA m : m.k = key)
         IN  [i \in 1..Len(ms) |-> ms[i].v]

Methods ==
    {"get_protocol_info", "get_token_info", "get_circulating_supply",
     "get_total_supply", "get_tokens", "search_tokens", "get_token",
     "get_lock_info", "get_pools", "search_pools", "get_pool"}

\* What reading each of the bodies Bodies of a method gives.
Read ==
    [method \in Methods |->
        [body \in Bodies(method) |-> FromSlice(TargetType(method), body)]]

\* The call has returned after a response arrived.
Answered == pc = "done" /\ response.received

\* The type of the elements of a method's page or list, if it has one.
IsPaginated(type) ==
    type.k = "struct" /\ type.name \in {"Paginated<Token>", "Paginated<Whirlpool>"}

ElementType(type) ==
    IF type.k = "Vec" THEN type.of ELSE StructFields(type.name)[1].type.of

\* The arrays of elements a body holds for a type: the data arrays of a
\* page, the array itself of a list.
ElementArrays(type, doc) ==
    IF type.k = "Vec" THEN (IF Kind(doc) = "arr" THEN <<doc>> ELSE <<>>)
    ELSE SelectSeq(ValuesUnder(doc, <<"data">>), LAMBDA d : Kind(d) = "arr")

(***************************************************************************)
(* C11.  A call returns Ok only if the body is a JSON document that        *)
(* deserializes as the target type, and then returns that value.  If an    *)
(* element of the data of a page (or of a list), or its meta, does not     *)
(* deserialize, the call returns an error; an Ok page holds one value for  *)
(* each element of data, in order.                                         *)
(***************************************************************************)
C11_NoPartialResult ==
    Answered =>
        LET type == TargetType(call.method)
            doc  == response.body.doc
        IN  /\ result.kind = "ok" =>
                   /\ response.body.json
                   /\ Deserialize(type, doc) = Done(result.value)
            /\ (response.body.json /\ (IsPaginated(type) \/ type.k = "Vec")) =>
                   LET arrays == ElementArrays(type, doc)
                       metas  == ValuesUnder(doc, <<"meta">>)
                   IN  /\ (\E a \in 1..Len(arrays) :
                              \E i \in 1..Len(Content(arrays[a])) :
                                  ~Deserialize(ElementType(type),
                                               Content(arrays[a])[i]).ok)
                             => result.kind = "err"
                       /\ (IsPaginated(type) /\ \E m \in 1..Len(metas) :
                              ~Deserialize(Struct("Meta"), metas[m]).ok)
                             => result.kind = "err"
                       /\ (result.kind = "ok" /\ Len(arrays) = 1) =>
                              LET items == Content(arrays[1])
                                  got   == IF type.k = "Vec" THEN result.value
                                           ELSE result.value.data
                              IN  /\ Len(got) = Len(items)
                                  /\ \A i \in 1..Len(items) :
                                         Done(got[i]) =
                                             Deserialize(ElementType(type), items[i])

\* A page of two elements whose second alone is in error: the call failed.
C11_Witness ==
    /\ Answered
    /\ call.method = "get_tokens"
    /\ result = Err("decode")
    /\ LET arrays == ElementArrays(TargetType(call.method), response.body.doc)
       IN  /\ Len(arrays) = 1
           /\ Len(Content(arrays[1])) = 2
           /\ Deserialize(Struct("Token"), Content(arrays[1])[1]).ok
           /\ ~Deserialize(Struct("Token"), Content(arrays[1])[2]).ok
           /\ Deserialize(Struct("Meta"),
                          ValuesUnder(response.body.doc, <<"meta">>)[1]).ok

(***************************************************************************)
(* C12.  In every record of a response a required field with no member     *)
(* makes the call fail, and an Option field (Meta.next, Meta.previous,     *)
(* Token.freezeAuthority, Token.mintAuthority, Whirlpool.adaptiveFee,      *)
(* Whirlpool.lockedLiquidityPercent) with no member, or with null, does    *)
(* not: it is None in the value returned.  A pool without the adaptiveFee  *)
(* key and with adaptiveFeeEnabled false parses with adaptive_fee None; an *)
(* empty page with both cursors null parses to no element and no cursor.   *)
(***************************************************************************)
RECURSIVE C12_LacksRequired(_, _)
\* Some record of the document read as type lacks a required field.
C12_LacksRequired(type, doc) ==
    CASE type.k = "Option"  ->
             Kind(doc) # "null" /\ C12_LacksRequired(type.of, doc)
      [] type.k = "Vec"     ->
             /\ Kind(doc) = "arr"
             /\ \E i \in 1..Len(Content(doc)) :
                    C12_LacksRequired(type.of, Content(doc)[i])
      [] type.k = "HashMap" ->
             /\ Kind(doc) = "obj"
             /\ \E i \in 1..Len(Content(doc)) :
                    C12_LacksRequired(type.of, Content(doc)[i].v)
      [] type.k = "struct"  ->
             /\ Kind(doc) = "obj"
             /\ LET fields == StructFields(type.name)
                IN  \E n \in 1..Len(fields) :
                        LET vs == ValuesUnder(doc, fields[n].key)
                        IN  IF vs = <<>> THEN fields[n].type.k # "Option"
                            ELSE \E i \in 1..Len(vs) :
                                     C12_LacksRequired(fields[n].type, vs[i])
      [] OTHER -> FALSE

RECURSIVE C12_AbsentIsNone(_, _, _)
\* In the value a document read as type gave, every Option field is None
\* exactly when the document has no member for it or has null.
C12_AbsentIsNone(type, doc, value) ==
    CASE type.k = "Option"  ->
             IF Kind(doc) = "null" THEN value = None
             ELSE IsSome(value) /\ C12_AbsentIsNone(type.of, doc, Unwrap(value))
      [] type.k = "Vec"     ->
             \A i \in 1..Len(Content(doc)) :
                 C12_AbsentIsNone(type.of, Content(doc)[i], value[i])
      [] type.k = "struct" /\ Kind(doc) = "obj" ->
             LET fields == StructFields(type.name)
             IN  \A n \in 1..Len(fields) :
                     LET vs == ValuesUnder(doc, fields[n].key)
                     IN  IF vs = <<>> THEN value[fields[n].field] = None
                         ELSE C12_AbsentIsNone(fields[n].type, vs[1],
                                               value[fields[n].field])
      [] OTHER -> TRUE

\* The wire keys of the Option fields of a struct.
C12_OptionKeys(name) ==
    CASE name = "Meta"      -> { <<"next">>, <<"previous">> }
      [] name = "Token"     -> { <<"freezeAuthority">>, <<"mintAuthority">> }
      [] name = "Whirlpool" -> { <<"adaptiveFee">>, <<"lockedLiquidityPercent">> }
      [] OTHER              -> {}

\* The valid object of a struct with one Option field removed or null.
C12_OneAbsent(name) ==
    LET s == Content(Sample(Struct(name), "value"))
    IN  { JObj(Without(s, key)) : key \in C12_OptionKeys(name) }
            \cup { JObj(Replace(s, key, JNull)) : key \in C12_OptionKeys(name) }

\* The valid pages of an element struct with one Option field of the meta,
\* or of the element, removed or null.
C12_Absences(name) ==
    LET page == Content(Sample(Struct("Paginated<" \o name \o ">"), "value"))
    IN  { JObj(Replace(page, <<"meta">>, m)) : m \in C12_OneAbsent("Meta") }
            \cup { JObj(Replace(page, <<"data">>, JArr(<<e>>))) :
                       e \in C12_OneAbsent(name) }

C12_TokenAbsences == C12_Absences("Token")
C12_WhirlpoolAbsences == C12_Absences("Whirlpool")

C12_RequiredAndOptionalFields ==
    (Answered /\ response.body.json) =>
        LET type == TargetType(call.method)
            doc  == response.body.doc
        IN  /\ C12_LacksRequired(type, doc) => result.kind = "err"
            /\ result.kind = "ok" => C12_AbsentIsNone(type, doc, result.value)
            /\ (call.method = "get_tokens" /\ doc \in C12_TokenAbsences)
                   => result.kind = "ok"
            /\ (call.method = "get_pools" /\ doc \in C12_WhirlpoolAbsences)
                   => result.kind = "ok"
            /\ (call.method = "get_pools" /\ doc = PageOf(PoolWithoutAdaptiveFee)) =>
                   /\ result.kind = "ok"
                   /\ result.value.data[1].adaptive_fee = None
                   /\ result.value.data[1].adaptive_fee_enabled = FALSE
            /\ (IsPaginated(type) /\ doc = EmptyPage) =>
                   /\ result.kind = "ok"
                   /\ result.value.data = <<>>
                   /\ result.value.meta = [next |-> None, previous |-> None]

\* A pool without adaptiveFee was returned, its adaptive_fee None.
C12_Witness ==
    /\ Answered
    /\ call.method = "get_pools"
    /\ response.body = JsonOf(PageOf(PoolWithoutAdaptiveFee))
    /\ ValuesUnder(PoolWithoutAdaptiveFee, <<"adaptiveFee">>) = <<>>
    /\ result.kind = "ok"
    /\ result.value.data[1].adaptive_fee = None
    /\ IsSome(result.value.data[1].locked_liquidity_percent)

(***************************************************************************)
(* C13.  The stats object of a pool is returned as a mapping from          *)
(* TimePeriod to PoolStats with at most one entry for a period: the        *)
(* entries are those of the keys of the object, a key met twice keeping    *)
(* its last value.  If a key of the object is none of the nine literals    *)
(* 5m, 15m, 30m, 1h, 2h, 4h, 8h, 12h, 24h, the call fails with a decode    *)
(* error.                                                                  *)
(***************************************************************************)
C13_Literals ==
    { <<"5", "m">>, <<"1", "5", "m">>, <<"3", "0", "m">>, <<"1", "h">>,
      <<"2", "h">>, <<"4", "h">>, <<"8", "h">>, <<"1", "2", "h">>,
      <<"2", "4", "h">> }

\* The pool objects of the page of a body.
C13_Pools(doc) ==
    LET arrays == ElementArrays(Struct("Paginated<Whirlpool>"), doc)
    IN  IF Len(arrays) # 1 THEN <<>> ELSE Content(arrays[1])

\* The members of the stats objects of a pool document.
C13_StatsMembers(pool) ==
    LET objs == SelectSeq(ValuesUnder(pool, <<"stats">>), LAMBDA d : Kind(d) = "obj")
    IN  IF Len(objs) # 1 THEN <<>> ELSE Content(objs[1])

\* The last value of the members ms under key.
C13_Last(ms, key) ==
    LET vs == SelectSeq(ms, LAMBDA m : m.k = key) IN vs[Len(vs)].v

C13_StatsIsStrictMap ==
    (Answered /\ response.body.json /\ call.method = "get_pools") =>
        LET pools == C13_Pools(response.body.doc)
        IN  \A i \in 1..Len(pools) :
                LET ms == C13_StatsMembers(pools[i])
                IN  /\ (\E m \in 1..Len(ms) : ms[m].k \notin C13_Literals)
                           => result = Err("decode")
                    /\ (result.kind = "ok" /\ Kind(pools[i]) = "obj") =>
                           LET stats == result.value.data[i].stats
                           IN  /\ DOMAIN stats \subseteq TimePeriod
                               /\ Cardinality(DOMAIN stats) <= Len(ms)
                               /\ { TimePeriodRename(v) : v \in DOMAIN stats }
                                      = { ms[m].k : m \in 1..Len(ms) }
                               /\ \A v \in DOMAIN stats :
                                      Done(stats[v]) =
                                          Deserialize(Struct("PoolStats"),
                                                      C13_Last(ms, TimePeriodRename(v)))

\* A pool whose stats hold the key 7d beside two valid entries: the call
\* failed, and would not have without that key.
C13_Witness ==
    /\ Answered
    /\ call.method = "get_pools"
    /\ result = Err("decode")
    /\ response.body.json
    /\ LET pools == C13_Pools(response.body.doc)
       IN  /\ Len(pools) = 1
           /\ LET ms == C13_StatsMembers(pools[1])
              IN  /\ Len(ms) = 3
                  /\ ms[3].k = <<"7", "d">>
                  /\ Deserialize(Struct("Whirlpool"),
                                 JObj(Replace(Content(pools[1]), <<"stats">>,
                                              JObj(SubSeq(ms, 1, 2))))).ok

(***************************************************************************)
(* C14.  Members whose key is in no rename table of their record are       *)
(* ignored: a body with such members gives the result of the body without  *)
(* them, so a valid payload with an added unknown member parses to the     *)
(* same record.  The value of a known field is the value on the wire: a    *)
(* string field holds the text of the string, a number or boolean field    *)
(* the number or boolean (ProtocolInfo.fees_24h_usdc is the string under   *)
(* fees24hUsdc).                                                           *)
(***************************************************************************)
RECURSIVE C14_Strip(_, _)
\* The document read as type, without the unknown members of its records.
C14_Strip(type, doc) ==
    CASE type.k = "Option" /\ Kind(doc) # "null" -> C14_Strip(type.of, doc)
      [] type.k = "Vec" /\ Kind(doc) = "arr" ->
             JArr([i \in 1..Len(Content(doc)) |-> C14_Strip(type.of, Content(doc)[i])])
      [] type.k = "HashMap" /\ Kind(doc) = "obj" ->
             JObj([i \in 1..Len(Content(doc)) |->
                     Member(Content(doc)[i].k, C14_Strip(type.of, Content(doc)[i].v))])
      [] type.k = "struct" /\ Kind(doc) = "obj" ->
             LET fields == StructFields(type.name)
                 typeOf(key) ==
                     fields[CHOOSE n \in 1..Len(fields) : fields[n].key = key].type
                 known == SelectSeq(Content(doc),
                              LAMBDA m : \E n \in 1..Len(fields) : fields[n].key = m.k)
             IN  JObj([i \in 1..Len(known) |->
                         Member(known[i].k, C14_Strip(typeOf(known[i].k), known[i].v))])
      [] OTHER -> doc

\* No symbol of a wire string is an escape sequence.
C14_Plain(s) == \A i \in 1..Len(s) : s[i] \notin {"\\\"", "\\\\", "\\n"}

RECURSIVE C14_ValuesExact(_, _, _)
\* The value a document read as type gave holds the values of the document.
C14_ValuesExact(type, doc, value) ==
    CASE type.k = "String" -> C14_Plain(Content(doc)) => value = Content(doc)
      [] type.k \in {"bool", "uint", "int"} -> value = Content(doc)
      [] type.k = "Option" ->
             Kind(doc) # "null" => C14_ValuesExact(type.of, doc, Unwrap(value))
      [] type.k = "Vec" ->
             /\ Len(value) = Len(Content(doc))
             /\ \A i \in 1..Len(value) :
                    C14_ValuesExact(type.of, Content(doc)[i], value[i])
      [] type.k = "struct" /\ Kind(doc) = "obj" ->
             LET fields == StructFields(type.name)
             IN  \A n \in 1..Len(fields) :
                     LET vs == ValuesUnder(doc, fields[n].key)
                     IN  vs # <<>> =>
                             C14_ValuesExact(fields[n].type, vs[1], value[fields[n].field])
      [] OTHER -> TRUE

C14_UnknownFieldsIgnored ==
    (Answered /\ response.body.json) =>
        LET type     == TargetType(call.method)
            doc      == response.body.doc
            stripped == C14_Strip(type, doc)
        IN  /\ stripped # doc =>
                   IF result.kind = "ok"
                   THEN Deserialize(type, stripped) = Done(result.value)
                   ELSE ~Deserialize(type, stripped).ok
            /\ result.kind = "ok" => C14_ValuesExact(type, doc, result.value)
            /\ (result.kind = "ok" /\ call.method = "get_protocol_info"
                    /\ Kind(doc) = "obj") =>
                   LET wire_value == Content(ValuesUnder(doc, <<"fees24hUsdc">>)[1])
                   IN  C14_Plain(wire_value)
                           => result.value.fees_24h_usdc = wire_value

\* A valid ProtocolInfo with an added member "extra" holding an object: it
\* parsed to the record of the payload without it.
C14_Witness ==
    /\ Answered
    /\ call.method = "get_protocol_info"
    /\ response.body.json
    /\ ValuesUnder(response.body.doc, <<"extra">>)
           = << JObj(<<Member(<<"address">>, JNum(1))>>) >>
    /\ C14_Strip(Struct("ProtocolInfo"), response.body.doc)
           = Sample(Struct("ProtocolInfo"), "value")
    /\ result.kind = "ok"
    /\ result.value.fees_24h_usdc = <<"fees_24h_usdc">>
    /\ DOMAIN result.value =
           {"fees_24h_usdc", "revenue_24h_usdc", "tvl", "volume_24h_usdc"}

(***************************************************************************)
(* C15.  With several calls in progress on one client, interleaved in any  *)
(* way, the URL of each call is the one its method builds from its own     *)
(* arguments and the client's base URL, the request it issued is for that  *)
(* URL, and what it returned is determined by that URL and the response    *)
(* to its own request.  No step of a call changes the client.              *)
(***************************************************************************)
\* The URL the method of a call builds from its arguments and a base URL.
C15_UrlOf(c, base_url) ==
    CASE c.method = "get_protocol_info"      -> ProtocolInfoUrl(base_url, c.chain)
      [] c.method = "get_token_info"         -> TokenInfoUrl(base_url, c.chain)
      [] c.method = "get_circulating_supply" -> CirculatingSupplyUrl(base_url, c.chain)
      [] c.method = "get_total_supply"       -> TotalSupplyUrl(base_url, c.chain)
      [] c.method = "get_tokens"    -> GetTokensUrl(base_url, c.chain, c.params)
      [] c.method = "search_tokens" -> SearchTokensUrl(base_url, c.chain, c.id)
      [] c.method = "get_token"     -> GetTokenUrl(base_url, c.chain, c.id)
      [] c.method = "get_lock_info" -> GetLockInfoUrl(base_url, c.chain, c.id)
      [] c.method = "get_pools"     -> GetPoolsUrl(base_url, c.chain, c.params)
      [] c.method = "search_pools"  ->
             SearchPoolsUrl(base_url, c.chain, c.id, c.params)
      [] c.method = "get_pool"      -> GetPoolUrl(base_url, c.chain, c.id)

\* What a call returns, given its URL and what came back for its request.
C15_ResultOf(c, u, r) ==
    IF ~u.ok THEN Err("url")
    ELSE IF ~r.received THEN Err("transport")
    ELSE LET decoded == Read[c.method][r.body]
         IN  IF decoded.ok THEN Ok(decoded.value) ELSE Err("decode")

\* Every call on the client: the one being polled and the others.
C15_Calls == <<Suspended>> \o others

C15_OnItsOwn(f) ==
    f.pc # "idle" =>
        /\ f.url = C15_UrlOf(f.call, client.base_url)
        /\ f.wire \in { <<>>, <<RequestTarget(f.url)>> }
        /\ f.response.received => f.wire = <<RequestTarget(f.url)>>
        /\ f.pc = "done" => f.result = C15_ResultOf(f.call, f.url, f.response)
        /\ f.pc # "done" => f.result = NoResult

C15_Independent == \A i \in 1..Len(C15_Calls) : C15_OnItsOwn(C15_Calls[i])

C15_CallsAreIndependent ==
    /\ []C15_Independent
    /\ [][client.constructed => client' = client]_vars

\* Two calls in progress at once, on different chains: one has returned Ok
\* while the other, begun before it, still waits for its body to be read.
C15_Witness ==
    /\ Len(others) = 1
    /\ pc = "done"
    /\ call.method = "get_protocol_info"
    /\ call.chain = <<"solana">>
    /\ result.kind = "ok"
    /\ others[1].pc = "json"
    /\ others[1].call.method = "get_token_info"
    /\ others[1].call.chain = <<"eclipse">>
    /\ others[1].response.status = 500
    /\ others[1].url # url

(***************************************************************************)
(* C16.  The fields extensions, metadata, stats and tags of a Token, and   *)
(* tags of a SimpleTokenInfo, hold the text the server sent in them,       *)
(* unchanged and unread: whatever that text is (JSON of one schema or      *)
(* another, or no JSON at all), a payload that is otherwise valid parses,  *)
(* and the field of the value returned is that text.                       *)
(***************************************************************************)
C16_TokenKeys == {"extensions", "metadata", "stats", "tags"}

\* The text of a field: any of Texts, or the text of the sample.
C16_Texts(key) == Texts \cup { <<key>> }

\* The object obj gave the record value: each of its fields keys that the
\* server wrote as the string of a text holds that text.
C16_HoldsText(obj, value, keys) ==
    \A key \in keys :
        LET vs == ValuesUnder(obj, <<key>>)
        IN  (Len(vs) = 1 /\ Kind(vs[1]) = "str") =>
                \A text \in C16_Texts(key) :
                    Content(vs[1]) = JsonEscape(text) => value[key] = text

\* The valid page of one element.
C16_Page(name, element) ==
    JObj(Replace(Content(Sample(Struct("Paginated<" \o name \o ">"), "value")),
                 <<"data">>, JArr(<<element>>)))

\* The valid page of one Token whose field key holds text.
C16_TokenPage(key, text) ==
    C16_Page("Token",
             JObj(Replace(Content(Sample(Struct("Token"), "value")),
                          <<key>>, JStr(JsonEscape(text)))))

\* The valid page of one pool whose token under side has tags text.
C16_PoolPage(side, text) ==
    C16_Page("Whirlpool",
             JObj(Replace(Content(Sample(Struct("Whirlpool"), "value")), <<side>>,
                          JObj(Replace(Content(Sample(Struct("SimpleTokenInfo"), "value")),
                                       <<"tags">>, JStr(JsonEscape(text)))))))

C17_Parsing == {"get_tokens", "search_tokens", "get_pools", "search_pools"}

C17_Order ==
    /\ (call.method \in C17_Parsing /\ pc # "idle" /\ ~url.ok) =>
           /\ pc = "done"
           /\ result = Err("url")
           /\ wire = <<>>
           /\ ~response.received
    /\ result = Err("url") => (wire = <<>> /\ ~response.received)
    /\ pc = "send" => (wire = <<>> /\ ~response.received /\ result = NoResult)
    /\ pc = "json" => (url.ok /\ Len(wire) = 1 /\ response.received)
    /\ result = Err("transport") => (Len(wire) = 1 /\ ~response.received)
    /\ result = Err("decode") =>
           (response.received /\ ~Read[call.method][response.body].ok)
    /\ result.kind = "ok" =>
           /\ url.ok
           /\ wire = <<RequestTarget(url)>>
           /\ response.received
           /\ Read[call.method][response.body] = Done(result.value)

\* The positions a call passes through, one after the other.
C17_Forward ==
    pc' # pc =>
        \/ pc = "idle" /\ pc' \in {"send", "done"}
        \/ pc = "send" /\ pc' \in {"json", "done", "idle"}
        \/ pc = "json" /\ pc' \in {"done", "idle"} /\ response.received
        \/ pc = "done" /\ pc' = "idle"

C17_StepsInOrder == []C17_Order /\ [][C17_Forward]_vars

\* get_tokens on a client whose base URL has no scheme: the error of
\* Url::parse came back, and nothing was sent.
C17_Witness ==
    /\ pc = "done"
    /\ call.method = "get_tokens"
    /\ client.base_url = <<"api.orca.so">>
    /\ ~url.ok
    /\ result = Err("url")
    /\ wire = <<>>
    /\ ~response.received

====
